---- MODULE Spec2Model ----
(***************************************************************************)
(* nagios-notify: one run of src/main.rs.  The run decodes its command     *)
(* line, loads config.yml, renders template.txt, optionally prints the     *)
(* body, builds the mail and hands it once to the SMTP relay.              *)
(*                                                                         *)
(* Option<T> is a sequence: <<>> for None, <<v>> for Some(v).              *)
(* The Japanese string literals of the source are written in romaji, the   *)
(* module being ASCII: "hosuto" (host), "sabisu" (service),                *)
(* " ni mondai ga hassei" (entered problem state), " ga seijou joutai ni   *)
(* fukki" (returned to normal), "kaifuku" (recovered), "keikoku" (warning),*)
(* "daun" (down), "chimeiteki" (fatal), "fumei" (unknown), "toutatsu funou *)
(* (keiro shougai no kanousei)" (unreachable), "gatsu/nichi/ji/fun"        *)
(* (month/day/hour/minute).                                                *)
(***************************************************************************)
EXTENDS Integers, Sequences, FiniteSets, TLC

VARIABLES
    pc,             \* position of main: "start", "parsed", "configured", "rendered", "printed", "exited"
    argv,           \* the command line as given (raw option values)
    args,           \* Option<Args>: the decoded Args
    config_yml,     \* Option: config.yml as load_config found it
    config,         \* Option<Config>
    templates,      \* Option: the ./*.txt template directory as create_body found it
    os_hostname,    \* Option: what hostname::get() answers in this run (kept once a body is rendered)
    body,           \* Option<String>: the rendered body
    stdout,         \* what the process wrote to standard output, in order
    smtp,           \* Option: how the relay behaves in this run (kept once send_mail turns to it)
    subject,        \* Option<String>: the subject send_mail computed
    calls,          \* the calls the run has entered, in order
    outbox,         \* the messages handed to mailer.send, in order
    failure,        \* "" or the step that ended the run
    exit_code       \* Option<int>: the process exit status

vars == <<pc, argv, args, config_yml, config, templates, os_hostname, body, stdout,
          smtp, subject, calls, outbox, failure, exit_code>>

None == <<>>
Some(v) == <<v>>
Unwrap(o) == o[1]

(***************************************************************************)
(* Bounds of the model                                                     *)
(***************************************************************************)
\* longest recipient list on the command line
MaxRecipients == 2
\* most option values of one command line that are missing, unknown or a help/version request
MaxDefects == 1

(***************************************************************************)
(* Exit statuses                                                           *)
(***************************************************************************)
ExitOk == 0
ExitFailure == 1
\* clap's Error::exit for a usage error
ExitUsage == 2
\* a Rust panic (expect / unwrap on an Err) ends the process with status 101
ExitPanic == 101

(***************************************************************************)
(* The enums and their decoders                                            *)
(***************************************************************************)
EventTypes == {"Host", "Service"}
NotificationTypes == {"Problem", "Recovery"}
Statuses == {"Ok", "Warning", "Critical", "Unknown", "Unreachable"}

\* lower-casing of the option values the model draws from
ToLower(s) ==
    CASE s = "Host" -> "host"
      [] s = "PROBLEM" -> "problem"
      [] s = "RECOVERY" -> "recovery"
      [] s = "OK" -> "ok"
      [] s = "WARNING" -> "warning"
      [] s = "CRITICAL" -> "critical"
      [] s = "UNKNOWN" -> "unknown"
      [] s = "UNREACHABLE" -> "unreachable"
      [] OTHER -> s

\* variant: the event type compared without regard to case
EventType_from_str_ignore_case(s) ==
    CASE ToLower(s) = "host" -> Some("Host")
      [] ToLower(s) = "service" -> Some("Service")
      [] OTHER -> None

\* enum EventType, #[value(rename_all = "LOWER")]: clap's possible values,
\* compared with the option value exactly (the Args fields set no ignore_case).
EventType_from_str(s) ==
    CASE s = "host" -> Some("Host")
      [] s = "service" -> Some("Service")
      [] OTHER -> None

\* enum NotificationType, #[value(rename_all = "UPPER")]
NotificationType_from_str(s) ==
    CASE s = "PROBLEM" -> Some("Problem")
      [] s = "RECOVERY" -> Some("Recovery")
      [] OTHER -> None

\* enum Status, #[value(rename_all = "UPPER")]
Status_from_str(s) ==
    CASE s = "OK" -> Some("Ok")
      [] s = "WARNING" -> Some("Warning")
      [] s = "CRITICAL" -> Some("Critical")
      [] s = "UNKNOWN" -> Some("Unknown")
      [] s = "UNREACHABLE" -> Some("Unreachable")
      [] OTHER -> None

\* strum Display of NotificationType: #[strum(serialize = "...")]
NotificationType_to_string(n) ==
    CASE n = "Problem" -> "PROBLEM"
      [] n = "Recovery" -> "RECOVERY"

\* strum Display of Status
Status_to_string(s) ==
    CASE s = "Ok" -> "OK"
      [] s = "Warning" -> "WARNING"
      [] s = "Critical" -> "CRITICAL"
      [] s = "Unknown" -> "UNKNOWN"
      [] s = "Unreachable" -> "UNREACHABLE"

(***************************************************************************)
(* Command lines                                                           *)
(***************************************************************************)
\* a mailbox as written: user@domain; either part may be missing
GoodMailbox == [user |-> "ops", domain |-> "example.com"]
BadMailbox == [user |-> "oncall", domain |-> ""]
MailboxTexts == {GoodMailbox, BadMailbox}

\* the -a value: a comma separated list of mailboxes
AddressLists == UNION {[1..n -> MailboxTexts] : n \in 1..MaxRecipients}

\* the -d value: either six whitespace separated fields or some other text
DateFields(wd, mo, d, h, mi, s, tz, y) ==
    [shape |-> "fields", weekday |-> wd, month |-> mo, day |-> d, hour |-> h,
     minute |-> mi, second |-> s, zone |-> tz, year |-> y]
DateText(t) == [shape |-> "text", text |-> t]
DateTimeTexts ==
    { DateFields("Mon", "Jan", 2, 15, 4, 5, "JST", 2006),
      DateFields("Tue", "Jan", 2, 15, 4, 5, "JST", 2006),
      DateText(""),
      DateText("garbage") }

TypeTexts == {"host", "service", "Host", "bogus"}
NotificationTypeTexts == {"PROBLEM", "RECOVERY", "problem"}
StatusTexts == {"OK", "WARNING", "CRITICAL", "UNKNOWN", "UNREACHABLE", "critical"}

Opt(S) == {None} \cup {Some(v) : v \in S}

\* what --help / --version ask for
Displays == {"none", "help", "version"}

RawArgv ==
    [display : Displays,
     verbose : BOOLEAN,
     host : Opt({"web01"}),
     addresses : Opt(AddressLists),
     host_address : Opt({"10.0.0.1"}),
     type : Opt(TypeTexts),
     datetime : Opt(DateTimeTexts),
     notification_type : Opt(NotificationTypeTexts),
     service : Opt({"nginx"}),
     status : Opt(StatusTexts),
     output : {Some("CRITICAL - load average: 9.1")}]

\* a required option that was not given
Missing(a) ==
    {f \in {"host", "addresses", "type", "datetime", "notification_type"} : a[f] = None}

\* an option whose value is none of the enum's possible values
BadValues(a) ==
    {f \in {"type"} : a.type # None /\ EventType_from_str(Unwrap(a.type)) = None}
    \cup {f \in {"notification_type"} :
            a.notification_type # None
            /\ NotificationType_from_str(Unwrap(a.notification_type)) = None}
    \cup {f \in {"status"} : a.status # None /\ Status_from_str(Unwrap(a.status)) = None}

Defects(a) ==
    Cardinality(Missing(a)) + Cardinality(BadValues(a))
    + (IF a.display = "none" THEN 0 ELSE 1)

Argvs == {a \in RawArgv : Defects(a) <= MaxDefects}

\* Args::parse(): a help or version request met on the command line ends the
\* decoding with "display"; an unknown enum value ends it with "usage" where
\* it is met, so with both on one command line their order decides; a missing
\* required option is found last.
ParseOutcomes(a) ==
    IF a.display # "none"
    THEN {"display"} \cup (IF BadValues(a) # {} THEN {"usage"} ELSE {})
    ELSE IF BadValues(a) # {} \/ Missing(a) # {} THEN {"usage"} ELSE {"ok"}

\* struct Args as clap fills it from a command line it accepts
Args_decode(a) ==
    [verbose |-> a.verbose,
     host |-> Unwrap(a.host),
     addresses |-> Unwrap(a.addresses),
     host_address |-> a.host_address,
     type |-> Unwrap(EventType_from_str(Unwrap(a.type))),
     datetime |-> Unwrap(a.datetime),
     notification_type |-> Unwrap(NotificationType_from_str(Unwrap(a.notification_type))),
     service |-> a.service,
     status |-> IF a.status = None THEN None ELSE Status_from_str(Unwrap(a.status)),
     output |-> a.output]

(***************************************************************************)
(* Phrases                                                                 *)
(***************************************************************************)
is_host(a) == a.type = "Host"

\* hostname::get() answers an OsString, or fails
HostnameResults ==
    { [ok |-> TRUE, utf8 |-> TRUE, name |-> "mon1"],
      [ok |-> TRUE, utf8 |-> FALSE, name |-> ""],
      [ok |-> FALSE, utf8 |-> FALSE, name |-> ""] }

monitor(h) ==
    IF h.ok THEN (IF h.utf8 THEN h.name ELSE "localhost") ELSE "localhost"

MonthNames == <<"Jan", "Feb", "Mar", "Apr", "May", "Jun",
                "Jul", "Aug", "Sep", "Oct", "Nov", "Dec">>
WeekdayNames == <<"Sun", "Mon", "Tue", "Wed", "Thu", "Fri", "Sat">>

IndexOf(seq, x) ==
    IF \E i \in 1..Len(seq) : seq[i] = x
    THEN CHOOSE i \in 1..Len(seq) : seq[i] = x
    ELSE 0

IsLeap(y) == (y % 4 = 0 /\ y % 100 # 0) \/ y % 400 = 0

DaysIn(y, m) ==
    CASE m = 2 -> IF IsLeap(y) THEN 29 ELSE 28
      [] m \in {4, 6, 9, 11} -> 30
      [] OTHER -> 31

\* day of the week of a civil date, 1 = Sunday .. 7 = Saturday
WeekdayOf(y, m, d) ==
    LET t == <<0, 3, 2, 5, 0, 3, 5, 1, 4, 6, 2, 4>>
        yy == IF m < 3 THEN y - 1 ELSE y
    IN ((yy + yy \div 4 - yy \div 100 + yy \div 400 + t[m] + d) % 7) + 1

\* NaiveDateTime::parse_from_str(s, "%a %b %d %H:%M:%S %Z %Y"): the text must
\* have the format's fields, each in range, and the weekday must be the
\* date's; the zone name is read over.
parse_from_str(s) ==
    IF s.shape # "fields" THEN None
    ELSE LET m == IndexOf(MonthNames, s.month)
             w == IndexOf(WeekdayNames, s.weekday)
         IN IF /\ m # 0
               /\ w # 0
               /\ s.day >= 1
               /\ s.day <= DaysIn(s.year, m)
               /\ s.hour \in 0..23
               /\ s.minute \in 0..59
               /\ s.second \in 0..60
               /\ WeekdayOf(s.year, m, s.day) = w
            THEN Some([year |-> s.year, month |-> m, day |-> s.day,
                       hour |-> s.hour, minute |-> s.minute, second |-> s.second])
            ELSE None

\* a two digit, zero padded field (%m, %d, %H, %M)
Pad2(n) == IF n < 10 THEN "0" \o ToString(n) ELSE ToString(n)

\* d.format("%m gatsu %d nichi  %H ji %M fun")
format(d) ==
    Pad2(d.month) \o "gatsu" \o Pad2(d.day) \o "nichi " \o Pad2(d.hour) \o "ji"
    \o Pad2(d.minute) \o "fun"

\* variant: an empty text instead of the placeholder
datetime_empty_on_failure(a) ==
    LET d == parse_from_str(a.datetime)
    IN IF d # None THEN format(Unwrap(d)) ELSE ""

datetime(a) ==
    LET d == parse_from_str(a.datetime)
    IN IF d # None THEN format(Unwrap(d)) ELSE "fumei"

title_type_name(a) == IF is_host(a) THEN "hosuto" ELSE "sabisu"

\* variant: the recovery phrase only for a recovery whose status is Ok
title_status_description_by_status(a) ==
    IF a.notification_type = "Recovery" /\ a.status = Some("Ok")
    THEN " ga seijou joutai ni fukki"
    ELSE " ni mondai ga hassei"

title_status_description(a) ==
    IF a.notification_type = "Recovery"
    THEN " ga seijou joutai ni fukki"
    ELSE " ni mondai ga hassei"

title(a) ==
    IF a.notification_type = "Problem" \/ a.notification_type = "Recovery"
    THEN title_type_name(a) \o title_status_description(a)
    ELSE "nanraka no mondai ga hassei (shousai fumei)"

\* variant: the two words exchanged
host_status_swapped(a) ==
    CASE a.notification_type = "Problem" -> "UP"
      [] a.notification_type = "Recovery" -> "DOWN"

host_status(a) ==
    CASE a.notification_type = "Problem" -> "DOWN"
      [] a.notification_type = "Recovery" -> "UP"

unwrap_or(o, default) == IF o = None THEN default ELSE Unwrap(o)

subject_of(a, h) ==
    IF is_host(a)
    THEN "[" \o NotificationType_to_string(a.notification_type) \o "] "
         \o host_status(a) \o ": " \o a.host \o "    by " \o monitor(h)
    ELSE "[" \o NotificationType_to_string(a.notification_type) \o "] "
         \o Status_to_string(unwrap_or(a.status, "Unknown")) \o ": " \o a.host
         \o "/" \o unwrap_or(a.service, "?") \o "    by " \o monitor(h)

\* variant: the host table for both event types, and the Unknown word for an
\* absent status
status_description_one_table(a) ==
    LET word(s) == CASE s = "Ok" -> "kaifuku"
                     [] s = "Warning" -> "keikoku"
                     [] s = "Critical" -> "daun"
                     [] s = "Unknown" -> "fumei"
                     [] s = "Unreachable" -> "toutatsu funou (keiro shougai no kanousei)"
    IN IF a.status = None THEN Some(word("Unknown")) ELSE Some(word(Unwrap(a.status)))

status_description(a) ==
    IF is_host(a)
    THEN IF a.status = None THEN None
         ELSE Some(CASE Unwrap(a.status) = "Ok" -> "kaifuku"
                     [] Unwrap(a.status) = "Warning" -> "keikoku"
                     [] Unwrap(a.status) = "Critical" -> "daun"
                     [] Unwrap(a.status) = "Unknown" -> "fumei"
                     [] Unwrap(a.status) = "Unreachable" ->
                            "toutatsu funou (keiro shougai no kanousei)")
    ELSE IF a.status = None THEN None
         ELSE Some(CASE Unwrap(a.status) = "Ok" -> "kaifuku"
                     [] Unwrap(a.status) = "Warning" -> "keikoku"
                     [] Unwrap(a.status) = "Critical" -> "chimeiteki"
                     [] Unwrap(a.status) = "Unknown" -> "fumei"
                     [] Unwrap(a.status) = "Unreachable" ->
                            "toutatsu funou (keiro shougai no kanousei)")

(***************************************************************************)
(* config.yml                                                              *)
(***************************************************************************)
SmtpKeys == {"host", "user_name", "password", "from"}

SmtpSection(from) ==
    [host |-> "smtp.example.com", user_name |-> "nagios", password |-> "secret",
     from |-> from]

\* the file as the run may find it: absent, not YAML of the Config shape
\* (here: the smtp section lacks "from"), or a Config with some sender text
ConfigFiles ==
    { [exists |-> FALSE, smtp |-> [k \in {} |-> ""]],
      [exists |-> TRUE,
       smtp |-> [host |-> "smtp.example.com", user_name |-> "nagios",
                 password |-> "secret"]] }
    \cup { [exists |-> TRUE, smtp |-> SmtpSection(f)] : f \in MailboxTexts }

Ok(v) == [ok |-> TRUE, value |-> Some(v), err |-> ""]
Err(e) == [ok |-> FALSE, value |-> None, err |-> e]

\* variant: a built-in configuration when the file cannot be used
load_config_or_default(file) ==
    IF file.exists /\ SmtpKeys \subseteq DOMAIN file.smtp
    THEN Ok([smtp |-> file.smtp])
    ELSE Ok([smtp |-> SmtpSection(GoodMailbox)])

\* read_to_string("config.yml") then serde_yaml::from_str: every field of
\* struct Smtp is required
load_config(file) ==
    IF ~file.exists THEN Err("failed to load config file")
    ELSE IF SmtpKeys \subseteq DOMAIN file.smtp
         THEN Ok([smtp |-> file.smtp])
         ELSE Err("")

(***************************************************************************)
(* Templates                                                               *)
(***************************************************************************)
ContextKeys == {"args", "title", "datetime", "monitor", "host_address",
                "status_description"}

\* the directory ./*.txt: do its files parse, which names does it hold, and
\* which context keys does template.txt refer to
TemplateDirs ==
    { [syntax_ok |-> TRUE, names |-> {"template.txt"}, uses |-> ContextKeys],
      [syntax_ok |-> FALSE, names |-> {}, uses |-> {}],
      [syntax_ok |-> TRUE, names |-> {}, uses |-> {}],
      [syntax_ok |-> TRUE, names |-> {"template.txt"},
       uses |-> ContextKeys \cup {"contact"}] }

\* Tera::new("./*.txt")
Tera_new(dir) == IF dir.syntax_ok THEN Ok(dir) ELSE Err("Parsing error(s)")

\* tera.render(name, context): the text is the template filled with the
\* values of the context keys it refers to
Tera_render(tera, name, context) ==
    IF name \notin tera.names THEN Err("template not found")
    ELSE IF ~(tera.uses \subseteq DOMAIN context) THEN Err("variable not found")
    ELSE Ok([template |-> name, values |-> [k \in tera.uses |-> context[k]]])

\* the Context create_body fills
body_context(a, h) ==
    [args |-> a,
     title |-> title(a),
     datetime |-> datetime(a),
     monitor |-> monitor(h),
     host_address |-> unwrap_or(a.host_address, "?"),
     status_description |-> status_description(a)]

\* create_body once Tera::new has succeeded
create_body(tera, a, h) == Tera_render(tera, "template.txt", body_context(a, h))

(***************************************************************************)
(* Mail                                                                    *)
(***************************************************************************)
\* str::parse::<Mailbox>(): user and domain must both be there
Mailbox_parse(m) == IF m.user # "" /\ m.domain # "" THEN Ok(m) ELSE Err("mailbox")

\* variant: a list is accepted when one of its mailboxes parses
Mailboxes_parse_lenient(list) ==
    IF \E i \in 1..Len(list) : Mailbox_parse(list[i]).ok
    THEN Ok(list)
    ELSE Err("mailboxes")

\* str::parse::<Mailboxes>(): every mailbox of the list must parse
Mailboxes_parse(list) ==
    IF \A i \in 1..Len(list) : Mailbox_parse(list[i]).ok
    THEN Ok(list)
    ELSE Err("mailboxes")

mailer_name == "Nagios Notify/version"

\* Message::builder() ... .body(body)
Message_build(from, to, subj, text) ==
    IF Len(to) = 0 THEN Err("missing to")
    ELSE Ok([from |-> from, reply_to |-> from, to |-> to, subject |-> subj,
             content_type |-> "text/plain", user_agent |-> mailer_name,
             body |-> text])

\* how the relay answers in a run: SmtpTransport::relay may fail, and
\* mailer.send succeeds or fails with a transport error
SendResults == {"ok", "authentication failed", "connection refused"}
SmtpBehaviours ==
    {[relay |-> FALSE, send |-> "ok"]} \cup {[relay |-> TRUE, send |-> r] : r \in SendResults}

\* variant: a failed hand-over is tried once more
deliver_retry(email, relay) ==
    [calls |-> IF relay.send = "ok" THEN <<"mailer.send">>
               ELSE <<"mailer.send", "mailer.send">>,
     sent |-> IF relay.send = "ok" THEN <<email>> ELSE <<email, email>>,
     end |-> IF relay.send = "ok" THEN "ok" ELSE "err",
     failure |-> IF relay.send = "ok" THEN "" ELSE "delivery"]

\* match mailer.send(&email) { Ok(_) => Ok(()), Err(e) => Err(e) }: the one
\* hand-over of the message to the relay, and its result passed on
deliver(email, relay) ==
    [calls |-> <<"mailer.send">>,
     sent |-> <<email>>,
     end |-> IF relay.send = "ok" THEN "ok" ELSE "err",
     failure |-> IF relay.send = "ok" THEN "" ELSE "delivery"]

\* send_mail up to Message::builder()...body(): the calls made, the subject
\* and the message, or the unwrap that failed
build_email(cfg, a, text, h) ==
    LET to == Mailboxes_parse(a.addresses)
        subj == subject_of(a, h)
        from == Mailbox_parse(cfg.smtp.from)
        email == Message_build(cfg.smtp.from, a.addresses, subj, text)
    IN  IF ~to.ok
        THEN [calls |-> <<"send_mail", "Mailboxes::parse">>, subject |-> None,
              email |-> None, failure |-> "recipients"]
        ELSE IF ~from.ok
        THEN [calls |-> <<"send_mail", "Mailboxes::parse", "subject", "Mailbox::parse">>,
              subject |-> Some(subj), email |-> None, failure |-> "sender"]
        ELSE IF ~email.ok
        THEN [calls |-> <<"send_mail", "Mailboxes::parse", "subject", "Mailbox::parse",
                         "Message::build">>,
              subject |-> Some(subj), email |-> None, failure |-> "message"]
        ELSE [calls |-> <<"send_mail", "Mailboxes::parse", "subject", "Mailbox::parse",
                         "Message::build">>,
              subject |-> Some(subj), email |-> email.value, failure |-> ""]

\* send_mail, in the order of its statements: the calls it makes, the
\* messages it hands to mailer.send, and how it ends ("ok", "err", "panic")
send_mail(cfg, a, text, h, relay) ==
    LET m == build_email(cfg, a, text, h)
        d == deliver(Unwrap(m.email), relay)
    IN  IF m.email = None
        THEN [calls |-> m.calls, subject |-> m.subject, sent |-> <<>>,
              end |-> "panic", failure |-> m.failure]
        ELSE IF ~relay.relay
        THEN [calls |-> Append(m.calls, "SmtpTransport::relay"), subject |-> m.subject,
              sent |-> <<>>, end |-> "panic", failure |-> "relay"]
        ELSE [calls |-> Append(m.calls, "SmtpTransport::relay") \o d.calls,
              subject |-> m.subject, sent |-> d.sent, end |-> d.end,
              failure |-> d.failure]

\* variant: every return of send_mail ends the process with status 0
exit_status_ignoring_result(end) ==
    CASE end = "ok" -> ExitOk
      [] end = "err" -> ExitOk
      [] end = "panic" -> ExitPanic

\* how main ends after send_mail: exit(0) on Ok, exit(1) on Err; an unwrap
\* that failed inside send_mail has ended the process before
exit_status(end) ==
    CASE end = "ok" -> ExitOk
      [] end = "err" -> ExitFailure
      [] end = "panic" -> ExitPanic

(***************************************************************************)
(* main                                                                    *)
(***************************************************************************)
Init ==
    /\ pc = "start"
    /\ argv = None
    /\ args = None
    /\ config_yml = None
    /\ config = None
    /\ templates = None
    /\ os_hostname = None
    /\ body = None
    /\ stdout = <<>>
    /\ smtp = None
    /\ subject = None
    /\ calls = <<>>
    /\ outbox = <<>>
    /\ failure = ""
    /\ exit_code = None

\* what the process writes to stdout
HelpText(d) == [what |-> d, text |-> None]
ParsingErrors == [what |-> "Parsing error(s)", text |-> None]
BodyText(b) == [what |-> "body", text |-> Some(b)]

\* let args = Args::parse();
ParseArgs ==
    /\ pc = "start"
    /\ \E a \in Argvs : \E o \in ParseOutcomes(a) :
          /\ argv' = Some(a)
          /\ calls' = Append(calls, "Args::parse")
          /\ IF o = "ok"
             THEN /\ args' = Some(Args_decode(a))
                  /\ pc' = "parsed"
                  /\ UNCHANGED <<stdout, failure, exit_code>>
             ELSE IF o = "display"
             THEN /\ stdout' = Append(stdout, HelpText(a.display))
                  /\ pc' = "exited"
                  /\ exit_code' = Some(ExitOk)
                  /\ UNCHANGED <<args, failure>>
             ELSE /\ pc' = "exited"
                  /\ failure' = "usage"
                  /\ exit_code' = Some(ExitUsage)
                  /\ UNCHANGED <<args, stdout>>
    /\ UNCHANGED <<config_yml, config, templates, os_hostname, body, smtp, subject, outbox>>

\* let config = load_config().expect("failed to load config file");
LoadConfig ==
    /\ pc = "parsed"
    /\ \E file \in ConfigFiles :
          LET r == load_config(file)
          IN /\ config_yml' = Some(file)
             /\ calls' = Append(calls, "load_config")
             /\ IF r.ok
                THEN /\ config' = r.value
                     /\ pc' = "configured"
                     /\ UNCHANGED <<failure, exit_code>>
                ELSE /\ pc' = "exited"
                     /\ failure' = "config"
                     /\ exit_code' = Some(ExitPanic)
                     /\ UNCHANGED config
    /\ UNCHANGED <<argv, args, templates, os_hostname, body, stdout, smtp, subject, outbox>>

\* the hostname answers that can tell runs apart: all of them when
\* create_body gets as far as monitor(), and no matter which when it does not
HostnameMet(dir) ==
    IF Tera_new(dir).ok
    THEN HostnameResults
    ELSE {[ok |-> FALSE, utf8 |-> FALSE, name |-> ""]}

\* let body = create_body(&args).expect("failed to create mail body");
CreateBody ==
    /\ pc = "configured"
    /\ \E dir \in TemplateDirs : \E h \in HostnameMet(dir) :
          LET t == Tera_new(dir)
              r == create_body(Unwrap(t.value), Unwrap(args), h)
          IN /\ templates' = Some(dir)
             /\ IF ~t.ok
                THEN /\ calls' = calls \o <<"create_body", "Tera::new">>
                     /\ stdout' = Append(stdout, ParsingErrors)
                     /\ pc' = "exited"
                     /\ failure' = "template load"
                     /\ exit_code' = Some(ExitFailure)
                     /\ UNCHANGED <<os_hostname, body>>
                ELSE /\ calls' = calls \o <<"create_body", "Tera::new", "render">>
                     /\ IF r.ok
                        THEN /\ body' = r.value
                             /\ os_hostname' = Some(h)
                             /\ pc' = "rendered"
                             /\ UNCHANGED <<stdout, failure, exit_code>>
                        ELSE /\ pc' = "exited"
                             /\ failure' = "template render"
                             /\ exit_code' = Some(ExitPanic)
                             /\ UNCHANGED <<os_hostname, stdout, body>>
    /\ UNCHANGED <<argv, args, config_yml, config, smtp, subject, outbox>>

\* variant: the body printed whatever verbose is
verbose_output_always(a, text) == <<[what |-> "body", text |-> Some(text)]>>

\* if args.verbose { println!("{}", &body); }
verbose_output(a, text) == IF a.verbose THEN <<BodyText(text)>> ELSE <<>>

PrintBody ==
    /\ pc = "rendered"
    /\ stdout' = stdout \o verbose_output(Unwrap(args), Unwrap(body))
    /\ calls' = IF stdout' # stdout THEN Append(calls, "println") ELSE calls
    /\ pc' = "printed"
    /\ UNCHANGED <<argv, args, config_yml, config, templates, os_hostname, body, smtp,
                   subject, outbox, failure, exit_code>>

\* the relay behaviours that can tell runs apart: all of them when send_mail
\* gets as far as the relay, and no matter which when it does not
RelayMet(cfg, a, text, h) ==
    IF build_email(cfg, a, text, h).email # None
    THEN SmtpBehaviours
    ELSE {[relay |-> FALSE, send |-> "ok"]}

\* match send_mail(&config, &args, &body) { Ok(()) => exit(0), Err(_e) => exit(1) }
SendMail ==
    /\ pc = "printed"
    /\ \E relay \in RelayMet(Unwrap(config), Unwrap(args), Unwrap(body), Unwrap(os_hostname)) :
          LET r == send_mail(Unwrap(config), Unwrap(args), Unwrap(body),
                             Unwrap(os_hostname), relay)
          IN /\ smtp' = IF \E i \in 1..Len(r.calls) : r.calls[i] = "SmtpTransport::relay"
                        THEN Some(relay) ELSE None
             /\ calls' = calls \o r.calls
             /\ subject' = r.subject
             /\ outbox' = outbox \o r.sent
             /\ failure' = r.failure
             /\ exit_code' = Some(exit_status(r.end))
             /\ pc' = "exited"
    /\ UNCHANGED <<argv, args, config_yml, config, templates, os_hostname, body, stdout>>

Next == ParseArgs \/ LoadConfig \/ CreateBody \/ PrintBody \/ SendMail

Spec == Init /\ [][Next]_vars

(***************************************************************************)
(* Properties                                                              *)
(***************************************************************************)
Exited == pc = "exited"
Called(f) == \E i \in 1..Len(calls) : calls[i] = f
FirstCall(f) == CHOOSE i \in 1..Len(calls) : calls[i] = f
TimesCalled(f) == Cardinality({i \in 1..Len(calls) : calls[i] = f})
SendAttempts == Len(outbox)
SentOk == SendAttempts > 0 /\ failure = ""

\* a mailbox text with both its parts
WellFormed(m) == m.user # "" /\ m.domain # ""
AllWellFormed(list) == \A i \in 1..Len(list) : WellFormed(list[i])

\* C1: mailer.send is entered only after argument decoding, config loading,
\* body rendering, recipient parsing, sender parsing and message building
\* have succeeded, in that order; a run whose recipient list or sender is
\* malformed ends in failure without any delivery attempt.
C1_DeliveryOnlyAfterAssembly ==
    /\ (Called("mailer.send") \/ SendAttempts > 0) =>
          /\ args # None /\ config # None /\ body # None
          /\ AllWellFormed(Unwrap(args).addresses)
          /\ WellFormed(Unwrap(config).smtp.from)
          /\ \A f \in {"Args::parse", "load_config", "render", "Mailboxes::parse",
                       "Mailbox::parse", "Message::build"} :
                Called(f) /\ FirstCall(f) < FirstCall("mailer.send")
          /\ \A i \in 1..Len(outbox) :
                /\ outbox[i].to = Unwrap(args).addresses
                /\ outbox[i].from = Unwrap(config).smtp.from
                /\ outbox[i].body = Unwrap(body)
    /\ (args # None /\ ~AllWellFormed(Unwrap(args).addresses)) =>
          /\ SendAttempts = 0 /\ ~Called("mailer.send")
          /\ Called("send_mail") => (Exited /\ exit_code \notin {None, Some(0)})
    /\ (config # None /\ ~WellFormed(Unwrap(config).smtp.from)) =>
          /\ SendAttempts = 0 /\ ~Called("mailer.send")
          /\ Called("send_mail") => (Exited /\ exit_code \notin {None, Some(0)})

\* C1 witness: send_mail was entered with a list holding a good and a bad
\* mailbox, and the run ended with nothing handed to the relay.
C1_Witness ==
    /\ Exited /\ Called("send_mail") /\ SendAttempts = 0
    /\ Unwrap(args).addresses = <<GoodMailbox, BadMailbox>>

\* C2 as stated, for the runs whose command line was decoded: the exit code
\* is 0 exactly when the mail was sent, and 1 after every failure.
C2_ExitCodeZeroOrOne ==
    (Exited /\ args # None) =>
        /\ (exit_code = Some(0)) <=> SentOk
        /\ ~SentOk => exit_code = Some(1)

\* C2 amended: the exit code is 0 exactly when the mail was sent (or help or
\* version text was all the run was asked for); every failure ends with a
\* non-zero code, which is 1 for a template load failure and a delivery
\* failure and the panic status 101 for a config load failure and a template
\* render failure.
C2_ExitCodeByCause ==
    Exited =>
        /\ exit_code # None
        /\ (exit_code = Some(0)) <=> (SentOk \/ (args = None /\ failure = ""))
        /\ (args = None /\ failure = "") => Unwrap(argv).display # "none"
        /\ failure = "config" => exit_code = Some(101)
        /\ failure = "template load" => exit_code = Some(1)
        /\ failure = "template render" => exit_code = Some(101)
        /\ failure = "delivery" => exit_code = Some(1)
        /\ failure # "" => exit_code # Some(0)

\* C2 witness: a run that ended on a config load failure, with status 101.
C2_Witness == Exited /\ failure = "config" /\ exit_code = Some(101)

\* a config.yml that is missing or does not deserialize into Config
Unusable(file) ==
    \/ ~file.exists
    \/ \E k \in {"host", "user_name", "password", "from"} : k \notin DOMAIN file.smtp

\* C3: when config.yml is missing or cannot be deserialized the run ends at
\* load_config with a failure: create_body is never entered, no template is
\* loaded, no body is rendered and nothing is handed to the relay.
C3_ConfigFailureBeforeBody ==
    (config_yml # None /\ Unusable(Unwrap(config_yml))) =>
        /\ Exited /\ failure = "config" /\ exit_code \notin {None, Some(0)}
        /\ config = None
        /\ calls = <<"Args::parse", "load_config">>
        /\ templates = None /\ body = None /\ stdout = <<>>
        /\ SendAttempts = 0

\* C3 witness: a run that found no config.yml.
C3_Witness == Exited /\ config_yml # None /\ ~Unwrap(config_yml).exists

\* the subject formats of the specification
UpperWord(n) == IF n = "Problem" THEN "PROBLEM" ELSE "RECOVERY"
StatusUpper(s) ==
    CASE s = "Ok" -> "OK" [] s = "Warning" -> "WARNING" [] s = "Critical" -> "CRITICAL"
      [] s = "Unknown" -> "UNKNOWN" [] s = "Unreachable" -> "UNREACHABLE"
HostSubject(n, host, mon) ==
    "[" \o UpperWord(n) \o "] " \o (IF n = "Problem" THEN "DOWN" ELSE "UP") \o ": "
    \o host \o "    by " \o mon
ServiceSubject(n, st, host, svc, mon) ==
    "[" \o UpperWord(n) \o "] " \o (IF st = None THEN "UNKNOWN" ELSE StatusUpper(Unwrap(st)))
    \o ": " \o host \o "/" \o (IF svc = None THEN "?" ELSE Unwrap(svc)) \o "    by " \o mon
MonitorName ==
    IF Unwrap(os_hostname).ok /\ Unwrap(os_hostname).utf8
    THEN Unwrap(os_hostname).name ELSE "localhost"

\* C4: the subject is "[<NOTIFICATIONTYPE>] <DOWN|UP>: <host>    by <monitor>"
\* for a Host event, whatever its status and service, and
\* "[<NOTIFICATIONTYPE>] <STATUS>: <host>/<service>    by <monitor>" for a
\* Service event, with UNKNOWN for an absent status and ? for an absent service.
C4_SubjectFormat ==
    subject # None =>
        LET a == Unwrap(args)
        IN /\ a.type = "Host" =>
                 subject = Some(HostSubject(a.notification_type, a.host, MonitorName))
           /\ a.type = "Service" =>
                 subject = Some(ServiceSubject(a.notification_type, a.status, a.host,
                                               a.service, MonitorName))
           /\ (a.type = "Host" /\ a.notification_type = "Problem" /\ MonitorName = "mon1")
                 => subject = Some("[PROBLEM] DOWN: web01    by mon1")
           /\ (a.type = "Host" /\ a.notification_type = "Recovery" /\ MonitorName = "mon1")
                 => subject = Some("[RECOVERY] UP: web01    by mon1")
           /\ (a.type = "Service" /\ a.notification_type = "Recovery"
               /\ a.status = Some("Ok") /\ a.service = Some("nginx")
               /\ MonitorName = "mon1")
                 => subject = Some("[RECOVERY] OK: web01/nginx    by mon1")
           /\ (a.type = "Service" /\ a.notification_type = "Problem"
               /\ a.status = None /\ a.service = None /\ MonitorName = "localhost")
                 => subject = Some("[PROBLEM] UNKNOWN: web01/?    by localhost")

\* C4 witness: the subject of a Host recovery that carries a status and a service.
C4_Witness ==
    /\ subject = Some("[RECOVERY] UP: web01    by mon1")
    /\ Unwrap(args).status = Some("Critical")
    /\ Unwrap(args).service = Some("nginx")

OtherType(t) == IF t = "Host" THEN "Service" ELSE "Host"

\* C5: status_description is absent when the status is absent, for both
\* event types; with a status, the Host and the Service word differ for
\* Critical alone ("daun" for Host, "chimeiteki" for Service).
C5_StatusDescription ==
    body # None =>
        LET a == Unwrap(args)
            sd == Unwrap(body).values.status_description
            other == status_description([a EXCEPT !.type = OtherType(a.type)])
        IN /\ a.status = None => (sd = None /\ other = None)
           /\ a.status # None =>
                 /\ sd # None /\ other # None
                 /\ (sd # other) <=> (a.status = Some("Critical"))
           /\ (a.status = Some("Critical") /\ a.type = "Host") => sd = Some("daun")
           /\ (a.status = Some("Critical") /\ a.type = "Service") => sd = Some("chimeiteki")
           /\ a.status = Some("Unknown") => sd = Some("fumei")

\* C5 witness: a rendered Service event whose status is Critical.
C5_Witness ==
    /\ body # None
    /\ Unwrap(args).type = "Service"
    /\ Unwrap(args).status = Some("Critical")
    /\ Unwrap(body).values.status_description = Some("chimeiteki")

\* nothing but the argument decoding has happened in the run
OnlyDecoded ==
    /\ calls = <<"Args::parse">>
    /\ config_yml = None /\ config = None /\ templates = None /\ body = None
    /\ subject = None /\ SendAttempts = 0

\* a required option is missing, or an enum option is not one of the symbols as written
InvalidEvent(a) ==
    \/ \E f \in {"host", "addresses", "type", "datetime", "notification_type"} : a[f] = None
    \/ a.type \notin {Some("host"), Some("service")}
    \/ a.notification_type \notin {Some("PROBLEM"), Some("RECOVERY")}
    \/ a.status \notin {None, Some("OK"), Some("WARNING"), Some("CRITICAL"),
                        Some("UNKNOWN"), Some("UNREACHABLE")}

\* every enum option is a known symbol in some casing, and nothing is missing
KnownInSomeCasing(a) ==
    /\ \A f \in {"host", "addresses", "type", "datetime", "notification_type"} : a[f] # None
    /\ ToLower(Unwrap(a.type)) \in {"host", "service"}
    /\ ToLower(Unwrap(a.notification_type)) \in {"problem", "recovery"}
    /\ a.status # None =>
          ToLower(Unwrap(a.status)) \in {"ok", "warning", "critical", "unknown", "unreachable"}

\* C6 as stated: invalid input is rejected at argument decoding, and any
\* casing of a known symbol is accepted.
C6_CaseInsensitive ==
    (argv # None /\ Unwrap(argv).display = "none") =>
        /\ ~KnownInSomeCasing(Unwrap(argv)) => (Exited /\ failure = "usage" /\ OnlyDecoded)
        /\ KnownInSomeCasing(Unwrap(argv)) => args # None

\* C6 amended: invalid input (a missing required option, or an enum value
\* that is not exactly one of host, service / PROBLEM, RECOVERY / OK,
\* WARNING, CRITICAL, UNKNOWN, UNREACHABLE) is rejected at argument decoding
\* before anything is loaded, rendered or sent; the symbols are matched
\* case-sensitively, so another casing of a known symbol is rejected too.
C6_RejectedAtDecoding ==
    argv # None =>
        LET a == Unwrap(argv)
        IN /\ InvalidEvent(a) => (Exited /\ args = None /\ OnlyDecoded)
           /\ (InvalidEvent(a) /\ a.display = "none") =>
                 (failure = "usage" /\ exit_code = Some(2) /\ stdout = <<>>)
           /\ (~InvalidEvent(a) /\ a.display = "none") => args # None
           /\ (a.type = Some("Host") \/ a.notification_type = Some("problem")
               \/ a.status = Some("critical")) => args = None

\* C6 witness: a command line whose only flaw is the casing of the event type.
C6_Witness ==
    /\ Exited /\ failure = "usage"
    /\ Unwrap(argv).type = Some("Host")
    /\ KnownInSomeCasing(Unwrap(argv))

\* the one datetime text of the model that has the source format
ParsableDate == DateFields("Mon", "Jan", 2, 15, 4, 5, "JST", 2006)

\* apart from the datetime, nothing the run has met is defective
NothingElseWrong ==
    /\ config_yml # None => ~Unusable(Unwrap(config_yml))
    /\ config # None => WellFormed(Unwrap(config).smtp.from)
    /\ templates # None =>
          /\ Unwrap(templates).syntax_ok
          /\ "template.txt" \in Unwrap(templates).names
          /\ Unwrap(templates).uses \subseteq ContextKeys
    /\ smtp # None => Unwrap(smtp).relay
    /\ AllWellFormed(Unwrap(args).addresses)

\* C7: datetime() always gives a value, the month/day hour:minute text when
\* the field parses and the placeholder "fumei" when it does not; a run with
\* an unparsable datetime and no other defect reaches the delivery attempt
\* with a rendered body.
C7_DatetimeNeverFails ==
    /\ body # None =>
          LET d == Unwrap(args).datetime
              shown == Unwrap(body).values.datetime
          IN IF d = ParsableDate
             THEN shown = "01gatsu02nichi 15ji04fun"
             ELSE shown = "fumei"
    /\ (Exited /\ args # None /\ Unwrap(args).datetime # ParsableDate /\ NothingElseWrong) =>
          /\ body # None
          /\ SendAttempts = 1
          /\ outbox[1].body.values.datetime = "fumei"

\* C7 witness: a run with an empty datetime that handed its mail to the relay.
C7_Witness ==
    /\ Exited /\ SendAttempts = 1
    /\ Unwrap(args).datetime = DateText("")
    /\ outbox[1].body.values.datetime = "fumei"

\* C8 as stated: without verbose nothing is written to stdout, and with
\* verbose nothing but the rendered body.
C8_StdoutOnlyBody ==
    args # None =>
        IF Unwrap(args).verbose
        THEN stdout = <<>> \/ (body # None /\ stdout = <<[what |-> "body", text |-> body]>>)
        ELSE stdout = <<>>

\* C8 amended: the rendered body is written to stdout exactly when verbose
\* is requested and the body was rendered; besides it, a template load
\* failure writes its "Parsing error(s)" message to stdout whatever verbose
\* is, and a help or version request writes its text; nothing else is written.
C8_StdoutContents ==
    stdout =
        IF argv # None /\ args = None /\ failure = ""
        THEN <<[what |-> Unwrap(argv).display, text |-> None]>>
        ELSE IF failure = "template load"
        THEN <<[what |-> "Parsing error(s)", text |-> None]>>
        ELSE IF pc \in {"printed", "exited"} /\ body # None /\ Unwrap(args).verbose
        THEN <<[what |-> "body", text |-> body]>>
        ELSE <<>>

\* C8 witness: a run without verbose that wrote the parsing errors to stdout.
C8_Witness ==
    /\ Exited /\ args # None /\ ~Unwrap(args).verbose
    /\ failure = "template load"
    /\ stdout # <<>>

\* the four titles
TitleOf(t, n) ==
    CASE t = "Host" /\ n = "Problem" -> "hosuto ni mondai ga hassei"
      [] t = "Host" /\ n = "Recovery" -> "hosuto ga seijou joutai ni fukki"
      [] t = "Service" /\ n = "Problem" -> "sabisu ni mondai ga hassei"
      [] t = "Service" /\ n = "Recovery" -> "sabisu ga seijou joutai ni fukki"

\* C9: the title is decided by the event type and the notification type
\* alone: the Host or Service noun followed by the problem or the recovery
\* phrase, the same whatever the status, host, service, output and datetime
\* are; the generic title is never produced.
C9_TitleByTypeAndNotification ==
    body # None =>
        LET a == Unwrap(args)
            shown == Unwrap(body).values.title
        IN /\ shown = TitleOf(a.type, a.notification_type)
           /\ shown # "nanraka no mondai ga hassei (shousai fumei)"
           /\ \A st \in Opt(Statuses) : title([a EXCEPT !.status = st]) = shown
           /\ \A h \in {"web01", "db02"} : title([a EXCEPT !.host = h]) = shown
           /\ \A sv \in Opt({"nginx", "sshd"}) : title([a EXCEPT !.service = sv]) = shown
           /\ \A o \in Opt({"OK - load average: 0.1"}) : title([a EXCEPT !.output = o]) = shown
           /\ \A d \in DateTimeTexts : title([a EXCEPT !.datetime = d]) = shown

\* C9 witness: a rendered Service recovery whose status is Critical.
C9_Witness ==
    /\ body # None
    /\ Unwrap(args).status = Some("Critical")
    /\ Unwrap(args).datetime = DateText("garbage")
    /\ Unwrap(body).values.title = "sabisu ga seijou joutai ni fukki"

Rank(p) ==
    CASE p = "start" -> 0 [] p = "parsed" -> 1 [] p = "configured" -> 2
      [] p = "rendered" -> 3 [] p = "printed" -> 4 [] p = "exited" -> 5

\* C10: every run ends, after at most one delivery attempt: each step moves
\* main forward, a run that has not exited can take a step, mailer.send is
\* entered at most once, a failed send of any kind ends the run with exit
\* code 1 and a successful one with exit code 0.
C10_OneAttemptThenExit ==
    /\ [](/\ SendAttempts <= 1
          /\ TimesCalled("mailer.send") = SendAttempts
          /\ (Exited \/ ENABLED Next)
          /\ SendAttempts = 1 =>
                /\ Exited
                /\ Unwrap(smtp).send = "ok" => exit_code = Some(0)
                /\ Unwrap(smtp).send # "ok" =>
                      (exit_code = Some(1) /\ failure = "delivery"))
    /\ [][Rank(pc') > Rank(pc)]_vars

\* C10 witness: a run whose one delivery attempt the relay refused.
C10_Witness ==
    /\ Exited /\ SendAttempts = 1
    /\ Unwrap(smtp).send = "connection refused"
    /\ exit_code = Some(1)

====
